---- MODULE Spec2Model ----
(***************************************************************************)
(* Model of SoxRealtimeSTTStreamer (src/sox_realtime_stt_streamer.py):     *)
(* the lifecycle thread (main / start_streaming), the worker thread        *)
(* (record_and_process_audio) and the environment they depend on (the      *)
(* consumer, the recorder, the transcription engine, the file system and   *)
(* the clock).                                                             *)
(***************************************************************************)
EXTENDS Integers, Sequences, FiniteSets, TLC

(* ------------------------------ bounds --------------------------------- *)
MaxSegments == 3        \* loop iterations explored per run
MaxLen == 3             \* longest engine output, in characters
MaxClock == 62          \* last clock value explored, in seconds

(* ------------------------- program constants --------------------------- *)
max_retries == 5
SizeThreshold == 8000
MinTextLen == 2
HeartbeatInterval == 30

(* ------------------------- input domains ------------------------------- *)
Chars == {" ", "a"}

FileSizes == {0, 500, SizeThreshold, SizeThreshold + 1, 20000}

RECURSIVE SeqsUpTo(_)
SeqsUpTo(n) ==
  IF n = 0 THEN {<<>>}
  ELSE LET S == SeqsUpTo(n - 1)
       IN S \cup {Append(s, c) : s \in {t \in S : Len(t) = n - 1}, c \in Chars}

Stdouts == SeqsUpTo(MaxLen)

\* what one run of the recorder can do: exit code, timeout or spawn error,
\* and the file it leaves at the output path (if any)
RecOutcomes ==
  [kind : {"exit0", "exitN", "timeout"}, wrote : BOOLEAN, size : FileSizes]
    \cup {[kind |-> "oserror", wrote |-> FALSE, size |-> 0]}

\* the line the engine's SIGALRM handler prints before it exits with 1
TimeoutNotice == <<"t", "i", "m", "e", "o", "u", "t">>

InnerTimeout == [kind |-> "exit", rc |-> 1, stdout |-> TimeoutNotice]

NoResult == [kind |-> "none", rc |-> 0, stdout |-> <<>>]

\* what one run of the engine can do: exit with a code and a standard output,
\* run past the 8 s process timeout, or fail to start
EngineOutcomes ==
  [kind : {"exit"}, rc : {0, 1}, stdout : Stdouts]
    \cup {[kind |-> k, rc |-> 1, stdout |-> <<>>] : k \in {"timeout", "error"}}
    \cup {InnerTimeout}

(* --------------------------- pure helpers ------------------------------ *)
IsSpace(c) == c = " "

RECURSIVE lstrip(_)
lstrip(s) ==
  IF s = <<>> THEN <<>>
  ELSE IF IsSpace(Head(s)) THEN lstrip(Tail(s)) ELSE s

RECURSIVE rstrip(_)
rstrip(s) ==
  IF s = <<>> THEN <<>>
  ELSE IF IsSpace(s[Len(s)]) THEN rstrip(SubSeq(s, 1, Len(s) - 1)) ELSE s

strip(s) == rstrip(lstrip(s))

\* a gate that lets a file of exactly SizeThreshold bytes through
isWorthTranscribing_ge(file_size) == file_size >= SizeThreshold

\* SegmentFilter gate on the recorded file (line 168)
isWorthTranscribing(file_size) == file_size > SizeThreshold

\* a gate that lets a text of exactly MinTextLen characters through
isMeaningfulText_ge(text) == text # <<>> /\ Len(strip(text)) >= MinTextLen

\* SegmentFilter gate on the transcription (line 176)
isMeaningfulText(text) == text # <<>> /\ Len(strip(text)) > MinTextLen

\* a transcribe_audio_chunk that does not look at the exit code
transcribe_ignores_returncode(o) ==
  IF o.kind = "exit" /\ strip(o.stdout) # <<>> THEN strip(o.stdout) ELSE <<>>

\* transcribe_audio_chunk: the value returned for one engine run
transcribe_audio_chunk(o) ==
  IF o.kind = "exit"
    THEN IF o.rc = 0 /\ strip(o.stdout) # <<>> THEN strip(o.stdout) ELSE <<>>
    ELSE <<>>

\* the heartbeat is due (line 182)
heartbeat_due(now, last) == now - last > HeartbeatInterval

\* the closed-connection test of the error handler (line 212)
connection_lost(sock) == sock = "none" \/ sock = "closed"

\* the default of is_final in send_transcription (line 47)
final_flag_default == FALSE

\* the argument record_and_process_audio passes for is_final (line 178)
final_flag == TRUE

NoMsg == [type |-> "none"]

transcription_message(text, now, is_final) ==
  [type |-> "transcription", text |-> text, timestamp |-> now,
   isFinal |-> is_final]

heartbeat_message(now) == [type |-> "heartbeat", timestamp |-> now]

(* ------------------------------ state ---------------------------------- *)
VARIABLES
  socket,           \* self.socket: "none", "open" or "closed" (fileno() = -1)
  link,             \* the socket is connected and the peer still reads it
  running,          \* self.running
  temp_dir,         \* the directory of self.temp_dir exists
  files,            \* audio files in temp_dir: set of <<segment, size>>
  segment_counter,  \* self.segment_counter
  last_heartbeat,   \* self.last_heartbeat
  mpc,              \* position of the lifecycle thread
  wpc,              \* position of the worker thread
  attempt,          \* loop variable of connect_to_nodejs (0 outside a call)
  audio_file,       \* local of the worker: segment number of the file name
  returncode,       \* sox_process.returncode
  result,           \* local of transcribe_audio_chunk: the engine's run
  heard,            \* callback streamers: the text RealtimeSTT hands over
  wire,             \* callback streamers: the record written for it
  transcription,    \* local of the worker
  consumer,         \* environment: "up", "down" (refuses) or "unreachable"
  clock,            \* environment: time.time()
  it,               \* history of the current iteration
  hist              \* history of the run

vars == <<socket, link, running, temp_dir, files, segment_counter,
          last_heartbeat, mpc, wpc, attempt, audio_file, returncode,
          transcription, consumer, clock, it, hist, result, heard, wire>>

prog == <<socket, link, running, temp_dir, files, segment_counter,
          last_heartbeat, mpc, wpc, attempt, audio_file, returncode,
          transcription, result, heard, wire>>

exists(f) == \E p \in files : p[1] = f
getsize(f) == (CHOOSE p \in files : p[1] = f)[2]

NewIteration(seg, due) ==
  [seg |-> seg, size |-> -1, engine |-> 0, text |-> <<>>, transcribed |-> FALSE,
   eng |-> "none", rec |-> "none", sends |-> 0, sendFailed |-> FALSE, msg |-> NoMsg, hbDue |-> due,
   hbTried |-> 0, hbFailed |-> FALSE, hb |-> NoMsg, path |-> "body"]

InitHist ==
  [unretried |-> FALSE,    \* a content send failed and no connect followed
   lastSent |-> -1,        \* segment of the last transcription message
   exhausted |-> FALSE,    \* a reconnect used up its attempts
   stopped |-> FALSE,      \* the stop signal was handled
   crashed |-> "no",       \* what ended the worker, if anything did
   connBy |-> "main",      \* the caller of the latest connect_to_nodejs
   connResult |-> "none",  \* how its latest pass through the loop ended
   tries |-> 0,            \* socket.connect calls it has made so far
   beats |-> 0]            \* heartbeats sent successfully in this run

Init ==
  /\ socket = "none"
  /\ link = FALSE
  /\ running = FALSE
  /\ temp_dir = TRUE
  /\ files = {}
  /\ segment_counter = 0
  /\ last_heartbeat = 0
  /\ mpc = "connect"
  /\ wpc = "unborn"
  /\ attempt = 0
  /\ audio_file = -1
  /\ returncode = 0
  /\ transcription = <<>>
  /\ result = NoResult
  /\ heard = <<>>
  /\ wire = NoMsg
  /\ consumer \in {"up", "down", "unreachable"}
  /\ clock = 0
  /\ it = NewIteration(-1, FALSE)
  /\ hist = InitHist

(* ----------------------- connect_to_nodejs ----------------------------- *)
\* what socket.connect does for each state of the consumer (line 35)
connect_outcome(c) ==
  IF c = "up" THEN "ok" ELSE IF c = "down" THEN "refused" ELSE "other"

\* one pass through the body of the retry loop (lines 32-45); a counts the
\* passes already made.  result: "true"/"false" are the return values,
\* "retry" another pass follows, "raise" the exception leaves the function.
connect_step(a, o) ==
  IF o = "ok"
    THEN [socket |-> "open", link |-> TRUE, attempt |-> a, result |-> "true"]
  ELSE IF o = "refused"
    THEN [socket |-> "closed", link |-> FALSE, attempt |-> a + 1,
          result |-> IF a + 1 >= max_retries THEN "false" ELSE "retry"]
  ELSE [socket |-> "open", link |-> FALSE, attempt |-> a, result |-> "raise"]

\* socket.send on self.socket succeeds (lines 61, 186)
send_ok(sock, l) == sock = "open" /\ l

\* a removal that leaves the file in place
os_unlink_noop(fs, f) == fs

\* os.unlink(audio_file) (lines 194, 203, 209)
os_unlink(fs, f) == {p \in fs : p[1] # f}

\* a heartbeat failure that reaches the handler of line 205
heartbeat_except_raise == "h_error"

\* the bare except of the heartbeat (lines 188-189): where control goes
heartbeat_except == "cleanup"

\* failed socket.connect calls of the call of connect_to_nodejs that is in
\* progress or has just failed
connect_tries(r) ==
  IF r.result = "true" THEN 0
  ELSE IF r.result = "raise" THEN r.attempt + 1 ELSE r.attempt

\* a main that goes on to start_streaming whatever connect_to_nodejs returns
main_ignores_connect(res) ==
  IF res = "retry" THEN "connect"
  ELSE IF res = "raise" THEN "returned" ELSE "checks"

\* main, lines 289-294: what follows a pass of the initial connect
main_after_connect(res) ==
  CASE res = "true" -> "checks"
    [] res = "retry" -> "connect"
    [] res = "false" -> "returned"
    [] OTHER -> "returned"

\* a handler of KeyboardInterrupt that leaves the flag set
interrupted_running_kept == TRUE

\* start_streaming, line 269: the value the handler gives self.running
interrupted_running == FALSE

(* -------------------------- lifecycle thread --------------------------- *)
\* main, lines 286-291: one connection attempt of the initial connect
MainConnect ==
  /\ mpc = "connect"
  /\ LET r == connect_step(attempt, connect_outcome(consumer))
     IN /\ socket' = r.socket
        /\ link' = r.link
        /\ attempt' = IF r.result = "retry" THEN r.attempt ELSE 0
        /\ mpc' = main_after_connect(r.result)
        /\ hist' = [hist EXCEPT !.unretried = FALSE,
                                 !.connResult = r.result,
                                 !.tries = connect_tries(r)]
  /\ UNCHANGED <<heard, wire, result, running, temp_dir, files, segment_counter, last_heartbeat,
                 wpc, audio_file, returncode, transcription, consumer, clock,
                 it>>

\* start_streaming, lines 226-251: the two start-up tests
StartupCheck ==
  /\ mpc = "checks"
  /\ \E sox_ok \in BOOLEAN, whisper_ok \in BOOLEAN :
       mpc' = IF sox_ok /\ whisper_ok THEN "start" ELSE "returned"
  /\ UNCHANGED <<heard, wire, result, socket, link, running, temp_dir, files, segment_counter,
                 last_heartbeat, wpc, attempt, audio_file, returncode,
                 transcription, consumer, clock, it, hist>>

\* start_streaming, lines 256-261
StartThread ==
  /\ mpc = "start"
  /\ running' = TRUE
  /\ wpc' = "loop"
  /\ mpc' = "poll"
  /\ UNCHANGED <<heard, wire, result, socket, link, temp_dir, files, segment_counter,
                 last_heartbeat, attempt, audio_file, returncode,
                 transcription, consumer, clock, it, hist>>

\* start_streaming, lines 264-269: Ctrl+C while polling
KeyboardInterrupt ==
  /\ mpc = "poll"
  /\ running' = interrupted_running
  /\ mpc' = "close"
  /\ hist' = [hist EXCEPT !.stopped = TRUE]
  /\ UNCHANGED <<heard, wire, result, socket, link, temp_dir, files, segment_counter,
                 last_heartbeat, wpc, attempt, audio_file, returncode,
                 transcription, consumer, clock, it>>

\* start_streaming, lines 273-275
FinallyClose ==
  /\ mpc = "close"
  /\ socket' = IF socket # "none" THEN "closed" ELSE socket
  /\ link' = FALSE
  /\ mpc' = "rmtree"
  /\ UNCHANGED <<heard, wire, result, running, temp_dir, files, segment_counter, last_heartbeat,
                 wpc, attempt, audio_file, returncode, transcription,
                 consumer, clock, it, hist>>

\* start_streaming, lines 278-280
FinallyRmtree ==
  /\ mpc = "rmtree"
  /\ temp_dir' = FALSE
  /\ files' = {}
  /\ mpc' = "returned"
  /\ UNCHANGED <<heard, wire, result, socket, link, running, segment_counter, last_heartbeat,
                 wpc, attempt, audio_file, returncode, transcription,
                 consumer, clock, it, hist>>

\* main returns: the interpreter exits and the daemon thread dies with it
ProcessExit ==
  /\ mpc = "returned"
  /\ mpc' = "exited"
  /\ link' = FALSE
  /\ UNCHANGED <<heard, wire, result, socket, running, temp_dir, files, segment_counter,
                 last_heartbeat, wpc, attempt, audio_file, returncode,
                 transcription, consumer, clock, it, hist>>

(* ---------------------------- worker thread ---------------------------- *)
Alive == mpc # "exited"

\* a test that looks for the file only
capture_ok_any_code(rc, ex) == ex

\* line 165: the recorder succeeded and left a file
capture_ok(rc, ex) == rc = 0 /\ ex

\* a counter that is never advanced
segment_counter_kept(c) == c

\* line 148: self.segment_counter += 1
next_segment_counter(c) == c + 1

\* record_and_process_audio, lines 144-148: loop test and file name
LoopHead ==
  /\ Alive /\ wpc = "loop"
  /\ IF ~running
       THEN /\ wpc' = "done"
            /\ UNCHANGED <<heard, wire, result, segment_counter, audio_file, transcription, it>>
       ELSE /\ segment_counter < MaxSegments
            /\ audio_file' = segment_counter
            /\ segment_counter' = next_segment_counter(segment_counter)
            /\ transcription' = <<>>
            /\ it' = NewIteration(segment_counter,
                                  heartbeat_due(clock, last_heartbeat))
            /\ wpc' = "record"
  /\ UNCHANGED <<heard, wire, result, socket, link, running, temp_dir, files, last_heartbeat, mpc,
                 attempt, returncode, consumer, clock, hist>>

\* lines 161-163: one run of the recorder
Record ==
  /\ Alive /\ wpc = "record"
  /\ \E o \in RecOutcomes :
       /\ o.wrote => temp_dir
       /\ o.kind = "exit0" => temp_dir
       /\ files' = IF o.wrote
                     THEN os_unlink(files, audio_file) \cup {<<audio_file, o.size>>}
                     ELSE files
       /\ returncode' = IF o.kind = "exit0" THEN 0 ELSE 1
       /\ wpc' = CASE o.kind = "timeout" -> "h_timeout"
                   [] o.kind = "oserror" -> "h_error"
                   [] OTHER -> "check"
       /\ it' = [it EXCEPT !.size = IF o.wrote THEN o.size ELSE -1,
                           !.rec = o.kind,
                           !.path = IF o.kind = "timeout" THEN "timeout"
                                    ELSE IF o.kind = "oserror" THEN "error"
                                    ELSE @]
  /\ UNCHANGED <<heard, wire, result, socket, link, running, temp_dir, segment_counter,
                 last_heartbeat, mpc, attempt, audio_file, transcription,
                 consumer, clock, hist>>

\* line 165
CheckExists ==
  /\ Alive /\ wpc = "check"
  /\ wpc' = IF capture_ok(returncode, exists(audio_file)) THEN "getsize"
            ELSE "heartbeat"
  /\ UNCHANGED <<heard, wire, result, socket, link, running, temp_dir, files, segment_counter,
                 last_heartbeat, mpc, attempt, audio_file, returncode,
                 transcription, consumer, clock, it, hist>>

\* lines 167-168: os.path.getsize raises when the file is gone
GetSize ==
  /\ Alive /\ wpc = "getsize"
  /\ IF ~exists(audio_file)
       THEN /\ wpc' = "h_error"
            /\ it' = [it EXCEPT !.path = "error"]
       ELSE /\ wpc' = IF isWorthTranscribing(getsize(audio_file))
                        THEN "transcribe" ELSE "heartbeat"
            /\ it' = it
  /\ UNCHANGED <<heard, wire, result, socket, link, running, temp_dir, files, segment_counter,
                 last_heartbeat, mpc, attempt, audio_file, returncode,
                 transcription, consumer, clock, hist>>

\* line 174, transcribe_audio_chunk lines 114-119: one run of the engine
Transcribe ==
  /\ Alive /\ wpc = "transcribe"
  /\ \E o \in EngineOutcomes :
       /\ (o.kind = "exit" /\ o.rc = 0) => exists(audio_file)
       /\ result' = o
  /\ it' = [it EXCEPT !.engine = @ + 1]
  /\ wpc' = "transcribed"
  /\ UNCHANGED <<heard, wire, socket, link, running, temp_dir, files, segment_counter,
                 last_heartbeat, mpc, attempt, audio_file, returncode,
                 transcription, consumer, clock, hist>>

\* transcribe_audio_chunk lines 121-140 and the text gate of line 176
Evaluate ==
  /\ Alive /\ wpc = "transcribed"
  /\ transcription' = transcribe_audio_chunk(result)
  /\ result' = NoResult
  /\ it' = [it EXCEPT !.transcribed = TRUE,
                      !.text = transcribe_audio_chunk(result),
                      !.eng = IF result.kind = "exit" /\ result.rc = 0
                                THEN "exit0" ELSE "failed"]
  /\ wpc' = IF isMeaningfulText(transcribe_audio_chunk(result))
              THEN "send" ELSE "heartbeat"
  /\ UNCHANGED <<heard, wire, socket, link, running, temp_dir, files, segment_counter,
                 last_heartbeat, mpc, attempt, audio_file, returncode,
                 consumer, clock, hist>>

\* line 178 with send_transcription, lines 47-69
Send ==
  /\ Alive /\ wpc = "send"
  /\ IF socket = "none"
       THEN UNCHANGED <<it, hist>>
       ELSE /\ it' = [it EXCEPT !.sends = @ + 1,
                       !.sendFailed = ~send_ok(socket, link),
                       !.msg = transcription_message(transcription, clock,
                                                     final_flag)]
            /\ hist' = [hist EXCEPT
                 !.unretried = @ \/ (running /\ ~send_ok(socket, link)),
                 !.lastSent = audio_file]
  /\ wpc' = "heartbeat"
  /\ UNCHANGED <<heard, wire, result, socket, link, running, temp_dir, files, segment_counter,
                 last_heartbeat, mpc, attempt, audio_file, returncode,
                 transcription, consumer, clock>>

\* lines 181-189
\* a timer that every attempt advances
heartbeat_timer_always(ok, now, last) == now

\* lines 185-188: line 186 is reached only when the send of line 185
\* returned; the except clause leaves the timer alone
heartbeat_timer(ok, now, last) == IF ok THEN now ELSE last

Heartbeat ==
  /\ Alive /\ wpc = "heartbeat"
  /\ IF heartbeat_due(clock, last_heartbeat)
       THEN /\ last_heartbeat' =
                 heartbeat_timer(send_ok(socket, link), clock, last_heartbeat)
            /\ IF send_ok(socket, link)
                 THEN /\ it' = [it EXCEPT !.hbTried = @ + 1,
                                          !.hb = heartbeat_message(clock)]
                      /\ hist' = [hist EXCEPT !.beats = @ + 1]
                      /\ wpc' = "cleanup"
                 ELSE /\ it' = [it EXCEPT !.hbTried = @ + 1,
                                          !.hbFailed = TRUE,
                                          !.hb = heartbeat_message(clock)]
                      /\ hist' = hist
                      /\ wpc' = heartbeat_except
       ELSE /\ wpc' = "cleanup"
            /\ UNCHANGED <<last_heartbeat, it, hist>>
  /\ UNCHANGED <<heard, wire, result, socket, link, running, temp_dir, files, segment_counter,
                 mpc, attempt, audio_file, returncode, transcription,
                 consumer, clock>>

\* lines 193-197: os.unlink may raise
Cleanup ==
  /\ Alive /\ wpc = "cleanup"
  /\ IF exists(audio_file)
       THEN \E ok \in BOOLEAN :
              IF ok THEN /\ files' = os_unlink(files, audio_file)
                         /\ wpc' = "loop"
                         /\ it' = it
                    ELSE /\ files' = files
                         /\ wpc' = "h_error"
                         /\ it' = [it EXCEPT !.path = "error"]
       ELSE /\ wpc' = "loop"
            /\ UNCHANGED <<heard, wire, result, files, it>>
  /\ UNCHANGED <<heard, wire, result, socket, link, running, temp_dir, segment_counter,
                 last_heartbeat, mpc, attempt, audio_file, returncode,
                 transcription, consumer, clock, hist>>

\* lines 199-204: an os.unlink that raises here leaves the function
HandleTimeout ==
  /\ Alive /\ wpc = "h_timeout"
  /\ IF exists(audio_file)
       THEN \E ok \in BOOLEAN :
              IF ok THEN /\ files' = os_unlink(files, audio_file)
                         /\ wpc' = "loop"
                         /\ hist' = hist
                    ELSE /\ files' = files
                         /\ wpc' = "crashed"
                         /\ hist' = [hist EXCEPT !.crashed = "unlink"]
       ELSE /\ wpc' = "loop"
            /\ UNCHANGED <<heard, wire, result, files, hist>>
  /\ UNCHANGED <<heard, wire, result, socket, link, running, temp_dir, segment_counter,
                 last_heartbeat, mpc, attempt, audio_file, returncode,
                 transcription, consumer, clock, it>>

\* lines 205-212 and 219-220
HandleError ==
  /\ Alive /\ wpc = "h_error"
  /\ \E ok \in BOOLEAN :
       IF exists(audio_file) /\ ~ok
         THEN /\ files' = files
              /\ wpc' = "crashed"
              /\ hist' = [hist EXCEPT !.crashed = "unlink"]
              /\ attempt' = attempt
         ELSE /\ files' = os_unlink(files, audio_file)
              /\ IF connection_lost(socket)
                   THEN /\ wpc' = "reconnect" /\ attempt' = 0
                        /\ hist' = [hist EXCEPT !.connBy = "worker",
                                                 !.connResult = "none",
                                                 !.tries = 0]
                   ELSE wpc' = "loop" /\ attempt' = attempt /\ hist' = hist
  /\ UNCHANGED <<heard, wire, result, socket, link, running, temp_dir, segment_counter,
                 last_heartbeat, mpc, audio_file, returncode, transcription,
                 consumer, clock, it>>

\* lines 214-217: one connection attempt of the reconnect
Reconnect ==
  /\ Alive /\ wpc = "reconnect"
  /\ LET r == connect_step(attempt, connect_outcome(consumer))
     IN /\ socket' = r.socket
        /\ link' = r.link
        /\ attempt' = IF r.result = "retry" THEN r.attempt ELSE 0
        /\ wpc' = CASE r.result = "retry" -> "reconnect"
                    [] r.result = "raise" -> "crashed"
                    [] OTHER -> "loop"
        /\ hist' = [hist EXCEPT
             !.unretried = FALSE,
             !.exhausted = @ \/ r.result = "false",
             !.connResult = r.result,
             !.tries = connect_tries(r),
             !.crashed = IF r.result = "raise" THEN "connect" ELSE @]
  /\ UNCHANGED <<heard, wire, result, running, temp_dir, files, segment_counter, last_heartbeat,
                 mpc, audio_file, returncode, transcription, consumer, clock,
                 it>>

(* ----------------------------- environment ----------------------------- *)
\* the clock is observed at the instants that matter to line 182: a whole
\* heartbeat interval after an instant at which a heartbeat can have been
\* sent, and one second later
next_time(t) ==
  IF t % (HeartbeatInterval + 1) = 0 THEN t + HeartbeatInterval ELSE t + 1

Tick ==
  /\ Alive
  /\ next_time(clock) <= MaxClock
  /\ clock' = next_time(clock)
  /\ UNCHANGED <<prog, consumer, it, hist>>

ConsumerChange ==
  /\ Alive
  /\ consumer' \in {"up", "down", "unreachable"} \ {consumer}
  /\ UNCHANGED <<prog, clock, it, hist>>

\* the peer closes or resets the established connection
LinkDrop ==
  /\ Alive
  /\ link
  /\ link' = FALSE
  /\ UNCHANGED <<heard, wire, result, socket, running, temp_dir, files, segment_counter,
                 last_heartbeat, mpc, wpc, attempt, audio_file, returncode,
                 transcription, consumer, clock, it, hist>>

Next ==
  \/ MainConnect \/ StartupCheck \/ StartThread \/ KeyboardInterrupt
  \/ FinallyClose \/ FinallyRmtree \/ ProcessExit
  \/ LoopHead \/ Record \/ CheckExists \/ GetSize \/ Transcribe \/ Evaluate
  \/ Send \/ Heartbeat \/ Cleanup \/ HandleTimeout \/ HandleError
  \/ Reconnect
  \/ Tick \/ ConsumerChange \/ LinkDrop

Spec == Init /\ [][Next]_vars

TypeOK ==
  /\ socket \in {"none", "open", "closed"}
  /\ link \in BOOLEAN /\ running \in BOOLEAN /\ temp_dir \in BOOLEAN
  /\ segment_counter \in 0..MaxSegments
  /\ attempt \in 0..max_retries
  /\ clock \in 0..MaxClock /\ last_heartbeat \in 0..MaxClock
  /\ heard \in Stdouts

(* ------------------------------ claims --------------------------------- *)
\* C1: an iteration whose recorded file has at most 8000 bytes (0 and 8000
\* included) never invokes the transcription engine and sends no
\* transcription message, and its file is gone when the loop is back at its
\* head.
C1_SmallSegmentSkipped ==
  (it.size >= 0 /\ it.size <= 8000) =>
      /\ it.engine = 0
      /\ it.sends = 0
      /\ it.msg = NoMsg
      /\ wpc \notin {"transcribe", "transcribed", "send"}
      /\ (wpc = "loop" => ~exists(it.seg))

C1_Witness ==
  /\ wpc = "loop" /\ it.seg >= 0 /\ it.path = "body"
  /\ returncode = 0 /\ it.size = 8000

\* C2: a transcription whose trimmed length is at most 2 (the empty result
\* of a timeout or an engine error included) is never sent.
C2_ShortTextNotSent ==
  (it.transcribed /\ Len(strip(it.text)) <= 2) =>
      /\ it.sends = 0
      /\ it.msg = NoMsg
      /\ wpc # "send"

C2_Witness ==
  /\ wpc = "loop" /\ it.transcribed /\ Len(strip(it.text)) = 2
  /\ it.path = "body"

\* C3: a segment of more than 8000 bytes whose transcription has a trimmed
\* length above 2 gets exactly one send attempt, carrying that text as a
\* final transcription; no transcription message is ever non-final, and no
\* iteration sends more than once (a failed message is not sent again).
C3_ExactlyOneFinalSend ==
  /\ (it.transcribed /\ Len(strip(it.text)) > 2 /\ wpc # "send") =>
        /\ it.size > 8000
        /\ it.sends = 1
        /\ it.msg.type = "transcription"
  /\ it.sends <= 1
  /\ it.msg # NoMsg =>
        /\ it.msg.type = "transcription"
        /\ it.msg.isFinal = TRUE
        /\ it.msg.text = it.text
        /\ hist.lastSent = it.seg

C3_Witness ==
  /\ wpc = "loop" /\ it.sends = 1 /\ it.sendFailed /\ it.seg >= 1
  /\ Len(strip(it.text)) = 3

\* C4: transcription messages reach the connection in non-decreasing segment
\* order, and one segment at a time is in flight: every file on disk belongs
\* to the segment being processed, and the worker moves on to the next
\* segment only from the loop head with no audio file left.
C4_SequentialSegments ==
  [][ /\ hist'.lastSent >= hist.lastSent
      /\ (hist'.lastSent # hist.lastSent =>
             hist'.lastSent = audio_file /\ wpc = "send")
      /\ (audio_file' # audio_file =>
             wpc = "loop" /\ files = {} /\ audio_file' = audio_file + 1)
      /\ (wpc' \in {"record", "check", "getsize", "transcribe",
                   "transcribed", "send"}
             => \A p \in files' : p[1] = audio_file')
      /\ Cardinality(files') <= 1 ]_vars

C4_Witness ==
  /\ wpc = "send" /\ audio_file = 2 /\ hist.lastSent = 1 /\ exists(2)

\* C5 (as claimed): after a content send failed while the pipeline was
\* running, the next segment's send is preceded by a connect attempt.
C5_ReconnectBeforeNextSend ==
  wpc = "send" => ~hist.unretried

\* C6 (as claimed): nothing but a stop ends the worker loop: the worker
\* thread is never ended by an exception.
C6_LoopNeverHalts ==
  running => wpc # "crashed"

\* C8 (as claimed): the audio file of an iteration is gone when the loop is
\* back at its head, and when the process has ended neither an audio file
\* nor the temporary directory is left.
C8_NoArtifactLeft ==
  /\ (wpc = "loop" /\ it.seg >= 0) => ~exists(it.seg)
  /\ mpc = "exited" => (files = {} /\ ~temp_dir)

\* C9 (as claimed): an iteration that ran while the heartbeat was due has
\* attempted a heartbeat by the time it ends, whatever happened to the
\* segment.
C9_HeartbeatEveryDueIteration ==
  (wpc = "loop" /\ it.seg >= 0 /\ it.hbDue) => it.hbTried >= 1

\* C10: a failed heartbeat send changes nothing but the position of the
\* worker, which goes on to the removal of the audio file: no handler is
\* entered, no connect is started, the socket and the files are untouched.
C10_HeartbeatFailureSwallowed ==
  [][ (it'.hbFailed /\ ~it.hbFailed) =>
        /\ wpc = "heartbeat" /\ wpc' = "cleanup"
        /\ UNCHANGED <<socket, link, running, temp_dir, files,
                       segment_counter, last_heartbeat, attempt, audio_file,
                       transcription, hist>> ]_vars

C10_Witness ==
  /\ wpc = "loop" /\ it.hbFailed /\ it.path = "body" /\ ~exists(it.seg)
  /\ it.sends = 1 /\ running

(* ------------------------- fair specification -------------------------- *)
\* both threads keep being scheduled while they can take a step, and the
\* process ends once main has returned; Ctrl+C, the clock and the consumer
\* are the environment's choice
WorkerStep ==
  \/ LoopHead \/ Record \/ CheckExists \/ GetSize \/ Transcribe \/ Evaluate
  \/ Send \/ Heartbeat \/ Cleanup \/ HandleTimeout \/ HandleError
  \/ Reconnect

MainStep ==
  \/ MainConnect \/ StartupCheck \/ StartThread
  \/ FinallyClose \/ FinallyRmtree \/ ProcessExit

FairSpec == Spec /\ WF_vars(WorkerStep) /\ WF_vars(MainStep)

C11_FiveAttemptsForEveryFailure ==
  /\ hist.tries <= 5
  /\ hist.connResult # "raise"
  /\ hist.connResult = "false" => (hist.tries = 5 /\ socket # "open")

\* C12: when the initial connect has used up its attempts, main returns: the
\* worker thread is never started, running stays false, no segment is
\* captured, no engine run is made and nothing is sent.
C12_FailedInitialConnectAborts ==
  (hist.connBy = "main" /\ hist.connResult = "false") =>
      /\ mpc \in {"returned", "exited"}
      /\ wpc = "unborn" /\ ~running
      /\ segment_counter = 0 /\ files = {}
      /\ it = NewIteration(-1, FALSE)
      /\ last_heartbeat = 0

C12_Witness ==
  /\ hist.connBy = "main" /\ hist.connResult = "false" /\ hist.tries = 5
  /\ mpc = "exited"

\* C13 (as claimed): right after a failed write of send_transcription the
\* streamer holds no live socket any more (the test of line 212 sees the
\* connection as lost), and that call made one write and no connect.
C13_SendFailureDisconnects ==
  (wpc = "heartbeat" /\ it.sendFailed) =>
      /\ connection_lost(socket)
      /\ it.sends = 1

\* only the lifecycle thread is scheduled fairly: the worker may stay inside
\* a capture or transcription call for ever
MainFairSpec == Spec /\ WF_vars(MainStep)

C15_SingleOwner ==
  /\ ~(mpc = "close" /\ wpc \in {"send", "heartbeat", "reconnect"})
  /\ ~(mpc = "rmtree" /\ exists(audio_file)
         /\ wpc \in {"check", "getsize", "transcribe", "transcribed",
                    "cleanup"})

\* C16: transcribe_audio_chunk hands the loop the trimmed output of the
\* engine when the engine exited with code 0 and printed something that is
\* not blank, and the empty string in every other case (process timeout,
\* the engine's own timeout with its notice on standard output, exit code
\* other than 0, any other error); the loop goes on with the send or the
\* heartbeat, and nothing is sent for a run that failed.
C16_TranscribeNeverFails ==
  /\ [][ (wpc = "transcribed" /\ wpc' # "transcribed") =>
           /\ transcription' =
                IF /\ result.kind = "exit" /\ result.rc = 0
                   /\ \E i \in 1..Len(result.stdout) : result.stdout[i] # " "
                  THEN strip(result.stdout) ELSE <<>>
           /\ (result = InnerTimeout => transcription' = <<>>)
           /\ wpc' \in {"send", "heartbeat"}
           /\ (transcription' = <<>> => wpc' = "heartbeat") ]_vars
  /\ [](it.eng = "failed" => (it.text = <<>> /\ it.sends = 0 /\ wpc # "send"))

C16_Witness ==
  /\ it.eng = "failed" /\ it.engine = 1 /\ it.text = <<>>
  /\ it.path = "body" /\ wpc = "loop" /\ it.seg = 1 /\ running

\* the capture of the current segment failed: the recorder exited with a
\* code other than 0, ran into its timeout, could not be started, or left no
\* file or an empty one
CaptureFailed ==
  \/ it.rec \in {"exitN", "timeout", "oserror"}
  \/ (it.rec = "exit0" /\ it.size \in {-1, 0})

stt_message(text, now) ==
  [type |-> "transcription", text |-> text, timestamp |-> now]

\* the prefix of on_realtime_transcription_stabilized, line 72
FinalPrefix == <<"F", "I", "N", "A", "L", ":">>

\* the streamer is connected and RealtimeSTT delivers texts to its callbacks
WireInit ==
  /\ socket = "open" /\ link = TRUE /\ running = TRUE
  /\ temp_dir = FALSE /\ files = {}
  /\ segment_counter = 0 /\ last_heartbeat = 0
  /\ mpc = "callbacks" /\ wpc = "unborn"
  /\ attempt = 0 /\ audio_file = -1 /\ returncode = 0
  /\ transcription = <<>> /\ result = NoResult
  /\ heard \in Stdouts /\ wire = NoMsg
  /\ consumer = "up" /\ clock = 0
  /\ it = NewIteration(-1, FALSE) /\ hist = InitHist

Unheard == <<socket, link, running, temp_dir, files, segment_counter,
             last_heartbeat, mpc, wpc, attempt, audio_file, returncode,
             transcription, result, consumer, it, hist>>

\* RealtimeSTT recognizes another text
Hear ==
  /\ mpc = "callbacks"
  /\ heard' \in Stdouts
  /\ wire' = NoMsg
  /\ UNCHANGED <<Unheard, clock>>

\* STTStreamer.on_realtime_transcription_update, lines 62-66
SttUpdate ==
  /\ mpc = "callbacks" /\ socket # "none"
  /\ strip(heard) # <<>>
  /\ wire' = stt_message(strip(heard), clock)
  /\ UNCHANGED <<Unheard, heard, clock>>

\* STTStreamer.on_realtime_transcription_stabilized, lines 68-72
SttStabilized ==
  /\ mpc = "callbacks" /\ socket # "none"
  /\ strip(heard) # <<>>
  /\ wire' = stt_message(FinalPrefix \o strip(heard), clock)
  /\ UNCHANGED <<Unheard, heard, clock>>

\* SimpleRealtimeSTT.on_realtime_transcription_update, lines 64-67
SimpleUpdate ==
  /\ mpc = "callbacks" /\ socket # "none"
  /\ strip(heard) # <<>>
  /\ wire' = transcription_message(strip(heard), clock, FALSE)
  /\ UNCHANGED <<Unheard, heard, clock>>

\* SimpleRealtimeSTT.on_realtime_transcription_stabilized, lines 69-72
SimpleStabilized ==
  /\ mpc = "callbacks" /\ socket # "none"
  /\ strip(heard) # <<>>
  /\ wire' = transcription_message(strip(heard), clock, TRUE)
  /\ UNCHANGED <<Unheard, heard, clock>>

WireNext ==
  \/ Hear \/ SttUpdate \/ SttStabilized \/ SimpleUpdate \/ SimpleStabilized
  \/ Tick

WireSpec == WireInit /\ [][WireNext]_vars

TranscriptionShape(m) ==
  /\ DOMAIN m = {"type", "text", "timestamp", "isFinal"}
  /\ m.type = "transcription"
  /\ m.isFinal \in BOOLEAN

HeartbeatShape(m) ==
  /\ DOMAIN m = {"type", "timestamp"}
  /\ m.type = "heartbeat"

\* C18 (as claimed): every record a streamer writes is a transcription record
\* with exactly the fields type, text, timestamp and isFinal whose text is
\* the recognized text, or a heartbeat record with type and timestamp.
C18_DeclaredShapes ==
  /\ \A m \in {it.msg, it.hb, wire} :
       m = NoMsg \/ TranscriptionShape(m) \/ HeartbeatShape(m)
  /\ it.msg # NoMsg => it.msg.text = it.text
  /\ wire # NoMsg => wire.text = strip(heard)

\* C19: segment_counter grows by exactly 1 at the start of every loop
\* iteration, whatever became of the iteration before, and changes nowhere
\* else, so every iteration of a run gets a file name of its own.
C19_CounterStepsByOne ==
  [][ /\ segment_counter' >= segment_counter
      /\ (segment_counter' # segment_counter) =>
            (wpc = "loop" /\ wpc' = "record")
      /\ (wpc = "loop" /\ wpc' = "record") =>
            /\ segment_counter' = segment_counter + 1
            /\ audio_file' = segment_counter
            /\ audio_file' > audio_file
            /\ it'.seg = audio_file'
      /\ (audio_file' # audio_file) => (wpc = "loop" /\ wpc' = "record")
    ]_vars

C19_Witness ==
  /\ wpc = "loop" /\ running /\ it.path = "timeout" /\ it.seg = 1
  /\ segment_counter = 2 /\ audio_file = 1 /\ hist.lastSent = 0

\* C20: last_heartbeat changes only in a heartbeat whose send succeeded and
\* then becomes the time of that heartbeat, more than 30 s after its old
\* value; no heartbeat is attempted unless more than 30 s have passed since
\* last_heartbeat; a failed heartbeat leaves last_heartbeat alone, and a
\* heartbeat that is due stays due until one is sent successfully, so every
\* later passage of the heartbeat step attempts it again.
C20_TimerAdvancedBySuccessOnly ==
  /\ [][ (last_heartbeat' # last_heartbeat) =>
            /\ wpc = "heartbeat" /\ send_ok(socket, link)
            /\ last_heartbeat' = clock
            /\ last_heartbeat' - last_heartbeat > 30
            /\ it'.hbTried = it.hbTried + 1 /\ ~it'.hbFailed ]_vars
  /\ [][ (it'.seg = it.seg /\ it'.hbTried > it.hbTried) =>
            (wpc = "heartbeat" /\ clock - last_heartbeat > 30) ]_vars
  /\ [][ (it'.hbFailed /\ ~it.hbFailed) =>
            last_heartbeat' = last_heartbeat ]_vars
  /\ [][ (heartbeat_due(clock, last_heartbeat)
            /\ ~heartbeat_due(clock', last_heartbeat')) =>
            (wpc = "heartbeat" /\ send_ok(socket, link)) ]_vars
  /\ [][ (wpc = "heartbeat" /\ wpc' # "heartbeat"
            /\ heartbeat_due(clock, last_heartbeat)) =>
            it'.hbTried = it.hbTried + 1 ]_vars

C20_Witness ==
  /\ hist.beats = 2 /\ last_heartbeat = 62 /\ it.hbTried = 1
  /\ ~it.hbFailed /\ wpc = "cleanup"

\* C21 (as claimed): once the lifecycle thread has handled the stop signal
\* and closed the socket, the worker never enters connect_to_nodejs: its
\* error handler never takes the closed socket for a lost connection, and
\* no connection is opened after the close.
C21_NoReconnectAfterClose ==
  [][ (hist.stopped /\ mpc # "close") =>
         /\ ~(wpc = "h_error" /\ wpc' = "reconnect")
         /\ ~(wpc = "reconnect" /\ wpc' # wpc)
         /\ (socket' = "open" => socket = "open") ]_vars

====
